---------------------------- MODULE Spec2Model ----------------------------
(***************************************************************************)
(* Model of the cost report Lambda                                         *)
(* (src/lambda-functions/generate-cost-report/app.py).                     *)
(*                                                                         *)
(* Text values (service names, units, prices, cost strings, scraped text)  *)
(* are sequences of one-character strings, so that lower(), substring      *)
(* tests, replace(), float() and the '.2f' formatting are computed on the  *)
(* characters as the Python code computes them.  A number is a decimal     *)
(* [num, scale] standing for num / 10^scale.                               *)
(***************************************************************************)
EXTENDS Integers, Sequences, FiniteSets, TLC

-----------------------------------------------------------------------------
(* Bounds of the model *)

\* longest 'data' list of price-list records handed to the normaliser
MaxData == 6
\* most records of a 'data' list that differ from the plain record
MaxSpecial == 2
\* longest service_names list handed to the recommendation engine
MaxNames == 2

-----------------------------------------------------------------------------
(* Characters and strings *)

UpperLetters ==
  <<"A","B","C","D","E","F","G","H","I","J","K","L","M",
    "N","O","P","Q","R","S","T","U","V","W","X","Y","Z">>

LowerLetters ==
  <<"a","b","c","d","e","f","g","h","i","j","k","l","m",
    "n","o","p","q","r","s","t","u","v","w","x","y","z">>

Digits == <<"0","1","2","3","4","5","6","7","8","9">>

Range(s) == {s[i] : i \in 1..Len(s)}

IsDigit(c) == c \in Range(Digits)

DigitVal(c) == (CHOOSE i \in 1..10 : Digits[i] = c) - 1

LowerChar(c) ==
  IF c \in Range(UpperLetters)
  THEN LowerLetters[CHOOSE i \in 1..26 : UpperLetters[i] = c]
  ELSE c

\* str.lower()
Lower(s) == [i \in 1..Len(s) |-> LowerChar(s[i])]

\* the Python test  sub in s  on strings
Contains(sub, s) ==
  \E i \in 0..(Len(s) - Len(sub)) : SubSeq(s, i + 1, i + Len(sub)) = sub

\* str.replace(ch, '') for a one-character ch
Remove(s, ch) == SelectSeq(s, LAMBDA c : c # ch)

-----------------------------------------------------------------------------
(* Numbers: float(), multiplication, addition and the '.2f' format *)

RECURSIVE Pow10(_)
Pow10(k) == IF k = 0 THEN 1 ELSE 10 * Pow10(k - 1)

RECURSIVE DigitsToNat(_)
DigitsToNat(s) ==
  IF s = <<>> THEN 0
  ELSE 10 * DigitsToNat(SubSeq(s, 1, Len(s) - 1)) + DigitVal(s[Len(s)])

RECURSIVE NatToDigits(_)
NatToDigits(n) ==
  IF n < 10 THEN <<Digits[n + 1]>>
  ELSE NatToDigits(n \div 10) \o <<Digits[(n % 10) + 1]>>

\* float(s) for the plain decimal notation: digits with at most one '.', at
\* least one digit.  Anything else raises ValueError (ok = FALSE).
ParseFloat(s) ==
  LET dots == {i \in 1..Len(s) : s[i] = "."}
      digs == SelectSeq(s, IsDigit)
  IN  IF /\ \A i \in 1..Len(s) : IsDigit(s[i]) \/ s[i] = "."
         /\ Cardinality(dots) <= 1
         /\ Len(digs) >= 1
      THEN [ok |-> TRUE, num |-> DigitsToNat(digs),
            scale |-> IF dots = {} THEN 0
                      ELSE Len(s) - (CHOOSE i \in dots : TRUE)]
      ELSE [ok |-> FALSE, num |-> 0, scale |-> 0]

Mul(a, b) == [num |-> a.num * b.num, scale |-> a.scale + b.scale]

Add(a, b) ==
  LET s == IF a.scale >= b.scale THEN a.scale ELSE b.scale
  IN  [num |-> a.num * Pow10(s - a.scale) + b.num * Pow10(s - b.scale),
       scale |-> s]

\* n / 10^k rounded to the nearest integer, an exact tie going to the even one
RoundDiv(n, k) ==
  LET q == n \div Pow10(k)
      r == n % Pow10(k)
  IN  IF 2 * r > Pow10(k) \/ (2 * r = Pow10(k) /\ q % 2 = 1) THEN q + 1 ELSE q

\* the value in cents, as '.2f' rounds it
Cents(v) ==
  IF v.scale <= 2 THEN v.num * Pow10(2 - v.scale)
  ELSE RoundDiv(v.num, v.scale - 2)

\* f'{cents/100:.2f}'
FormatCents(c) ==
  NatToDigits(c \div 100) \o <<".">>
    \o <<Digits[((c \div 10) % 10) + 1], Digits[(c % 10) + 1]>>

\* f'{v:.2f}'
Format2f(v) == FormatCents(Cents(v))


-----------------------------------------------------------------------------
(* String constants of the program *)

S_Sentinel ==
  <<"C","a","l","c","u","l","a","t","i","o","n"," ","n","o","t"," ","a","v",
    "a","i","l","a","b","l","e">>

S_Varies == <<"V","a","r","i","e","s">>

S_PerMonth == <<"/","m","o","n","t","h">>

S_NA == <<"N","/","A">>

S_Provides == <<"p","r","o","v","i","d","e","s"," ">>

S_Functionality ==
  <<" ","f","u","n","c","t","i","o","n","a","l","i","t","y"," ","i","n"," ",
    "t","h","e"," ","A","W","S"," ","c","l","o","u","d">>

S_That == <<" ","t","h","a","t"," ">>

S_Month == <<"M","o","n","t","h"," ">>

K_lambda == <<"l","a","m","b","d","a">>

K_dynamodb == <<"d","y","n","a","m","o","d","b">>

K_s3 == <<"s","3">>

K_bedrock == <<"b","e","d","r","o","c","k">>

K_csv == <<"c","s","v">>

K_markdown == <<"m","a","r","k","d","o","w","n">>

-----------------------------------------------------------------------------
(* Dictionaries: a dict is a function; d[k] = v adds or replaces a key *)

EmptyDict == << >>

Put(d, k, v) == [x \in (DOMAIN d) \cup {k} |-> IF x = k THEN v ELSE d[x]]

-----------------------------------------------------------------------------
(* parse_pricing_data: the structure it starts from *)

NewPricingStructure(service_name) ==
  [service_name |-> service_name,
   service_description |-> << >>,
   unit_pricing |-> << >>,
   free_tier |-> << >>,
   usage_levels |-> [low |-> EmptyDict, medium |-> EmptyDict, high |-> EmptyDict],
   key_cost_factors |-> << >>,
   projected_costs |-> EmptyDict,
   recommendations |-> [immediate |-> << >>, best_practices |-> << >>],
   assumptions |-> << >>]

-----------------------------------------------------------------------------
(* parse_pricing_data: the structured (Price List API) strategy *)

\* the number of leading elements of 'data' that are examined
MaxItems == 5

RECURSIVE Concat(_)
Concat(ss) == IF ss = << >> THEN << >> ELSE Head(ss) \o Concat(Tail(ss))

\* one price dimension: appended when it has both pricePerUnit and unit
DimensionEntries(dimension) ==
  IF dimension.hasPricePerUnit /\ dimension.hasUnit
  THEN << [unit |-> dimension.unit,
           price |-> <<"$">> \o (IF dimension.hasUSD THEN dimension.usd ELSE S_NA),
           hasDescription |-> TRUE,
           description |-> dimension.description] >>
  ELSE << >>

\* terms.items() -> term_values.items() -> price_dimensions.items()
TermEntries(terms) ==
  Concat([t \in 1..Len(terms) |->
    Concat([o \in 1..Len(terms[t]) |->
      Concat([d \in 1..Len(terms[t][o]) |->
        DimensionEntries(terms[t][o][d])])])])

\* the description set by every record that has both attributes
RecordDescription_overwritten(current, product) ==
  IF product.hasAttributes /\ product.hasProductFamily /\ product.hasDescription
  THEN product.productFamily \o S_That \o product.description
  ELSE current

\* the description a record gives while none is set yet
RecordDescription(current, product) ==
  IF current = << >> /\ product.hasAttributes
     /\ product.hasProductFamily /\ product.hasDescription
  THEN product.productFamily \o S_That \o product.description
  ELSE current

\* the body of the loop over price_list[:5], on st = [ps, raised, error]:
\* ps is the pricing structure, raised tells that an exception left the loop
\* (the except clause catches JSONDecodeError and KeyError only)
ProcessItem(price_item, st) ==
  CASE price_item.kind = "notstr"  -> st
    [] price_item.kind = "badjson" -> st
    [] price_item.kind = "array"   ->
         [st EXCEPT !.raised = TRUE,
                    !.error = "'list' object has no attribute 'get'"]
    [] price_item.kind = "object"  ->
         [st EXCEPT
            !.ps.service_description = RecordDescription(@, price_item.product),
            !.ps.unit_pricing = @ \o TermEntries(price_item.terms)]

RECURSIVE ProcessItems(_, _)
ProcessItems(items, st) ==
  IF items = << >> \/ st.raised THEN st
  ELSE ProcessItems(Tail(items), ProcessItem(Head(items), st))

Prefix(s, n) == SubSeq(s, 1, IF Len(s) < n THEN Len(s) ELSE n)

StructuredStrategy(data, st) ==
  IF data.kind = "list" THEN ProcessItems(Prefix(data.list, MaxItems), st) ELSE st

-----------------------------------------------------------------------------
(* parse_pricing_data: the scraped-text strategy.  The regular expressions *)
(* are all matched with re.IGNORECASE, so literals are compared on the     *)
(* lower-cased text.                                                       *)

Letters == Range(UpperLetters) \cup Range(LowerLetters)

\* [\d,.]
PriceChars == Range(Digits) \cup {",", "."}

\* \s
SpaceChars == {" ", "\n", "\t"}

\* [\w\s-]
UnitChars == Letters \cup Range(Digits) \cup {"_", "-"} \cup SpaceChars

UpperChar(c) ==
  IF c \in Range(LowerLetters)
  THEN UpperLetters[CHOOSE i \in 1..26 : LowerLetters[i] = c]
  ELSE c

\* str.title(): a letter is upper case after a non-letter, lower case after
\* a letter
Title(s) ==
  [i \in 1..Len(s) |->
     IF i > 1 /\ s[i - 1] \in Letters THEN LowerChar(s[i]) ELSE UpperChar(s[i])]

\* str.strip()
RECURSIVE Strip(_)
Strip(s) ==
  IF s = << >> THEN s
  ELSE IF Head(s) \in SpaceChars THEN Strip(Tail(s))
  ELSE IF s[Len(s)] \in SpaceChars THEN Strip(SubSeq(s, 1, Len(s) - 1))
  ELSE s

\* the literal lit stands at position i of text (case-insensitive)
At(lit, text, i) ==
  /\ i >= 1
  /\ i + Len(lit) - 1 <= Len(text)
  /\ Lower(SubSeq(text, i, i + Len(lit) - 1)) = Lower(lit)

\* the last position of the longest run of characters of class that starts
\* at position i; i - 1 when the run is empty
RECURSIVE RunEnd(_, _, _)
RunEnd(text, i, class) ==
  IF i <= Len(text) /\ text[i] \in class THEN RunEnd(text, i + 1, class)
  ELSE i - 1

S_FullyManaged ==
  <<" ","i","s"," ","a"," ","f","u","l","l","y"," ","m","a","n","a","g","e",
    "d"," ","s","e","r","v","i","c","e"," ","t","h","a","t"," ">>

S_Serverless ==
  <<" ","i","s"," ","a"," ","s","e","r","v","e","r","l","e","s","s"," ","s",
    "e","r","v","i","c","e"," ","t","h","a","t"," ">>

S_AwsService ==
  <<" ","i","s"," ","a","n"," ","A","W","S"," ","s","e","r","v","i","c","e",
    " ","t","h","a","t"," ">>

description_patterns(service_name) ==
  << Title(service_name) \o S_FullyManaged,
     Title(service_name) \o S_Serverless,
     Title(service_name) \o S_AwsService >>

\* re.search(lit + '(.*?)\.', text): the places where lit stands and a '.'
\* follows on the same line; the leftmost one is the match
DescriptionStarts(lit, text) ==
  {i \in 1..Len(text) :
     /\ At(lit, text, i)
     /\ \E d \in (i + Len(lit))..Len(text) :
          /\ text[d] = "."
          /\ \A k \in (i + Len(lit))..(d - 1) : text[k] # "\n"}

Min(S) == CHOOSE x \in S : \A y \in S : x <= y

\* match.group(1): up to the first '.' after the literal
DescriptionGroup(lit, text) ==
  LET i == Min(DescriptionStarts(lit, text))
      c == i + Len(lit)
      d == Min({k \in c..Len(text) : text[k] = "."})
  IN  SubSeq(text, c, d - 1)

\* the loop over description_patterns: the first pattern that matches wins
RECURSIVE ExtractDescription(_, _)
ExtractDescription(patterns, text) ==
  IF patterns = << >> THEN << >>
  ELSE IF DescriptionStarts(Head(patterns), text) # {}
  THEN DescriptionGroup(Head(patterns), text)
  ELSE ExtractDescription(Tail(patterns), text)

S_Pricing == <<"P","r","i","c","i","n","g">>
S_Price == <<"P","r","i","c","e">>
S_Costs == <<"C","o","s","t","s">>
S_Cost == <<"C","o","s","t">>
S_Fees == <<"F","e","e","s">>
S_Fee == <<"F","e","e">>
S_FreeTier == <<"F","r","e","e"," ","T","i","e","r">>
S_Features == <<"F","e","a","t","u","r","e","s">>
S_Benefits == <<"B","e","n","e","f","i","t","s">>
S_FAQs == <<"F","A","Q","s">>

\* (?:Pricing|Price|Costs?|Fees?), in the order the alternatives are tried
SectionOpeners == <<S_Pricing, S_Price, S_Costs, S_Cost, S_Fees, S_Fee>>

\* (?:Free Tier|Features|Benefits|FAQs)
SectionClosers == {S_FreeTier, S_Features, S_Benefits, S_FAQs}

\* the opener that matches at position i: the first alternative that stands
\* there
OpenerAt(text, i) ==
  LET k == Min({j \in 1..Len(SectionOpeners) : At(SectionOpeners[j], text, i)})
  IN  SectionOpeners[k]

HasOpener(text, i) == \E j \in 1..Len(SectionOpeners) : At(SectionOpeners[j], text, i)

CloserAt(text, j) == \E c \in SectionClosers : At(c, text, j)

\* price_section_match: [found, text]; group(1) runs from the end of the
\* leftmost opener that has a closer after it to the first such closer
PriceSection(text) ==
  LET starts == {i \in 1..Len(text) :
                   /\ HasOpener(text, i)
                   /\ \E j \in (i + Len(OpenerAt(text, i)))..Len(text) :
                        CloserAt(text, j)}
  IN  IF starts = {} THEN [found |-> FALSE, text |-> << >>]
      ELSE LET i == Min(starts)
               b == i + Len(OpenerAt(text, i))
               j == Min({k \in b..Len(text) : CloserAt(text, k)})
           IN  [found |-> TRUE, text |-> SubSeq(text, b, j - 1)]

S_Per == <<" ","p","e","r"," ">>
S_CostsSp == <<" ","c","o","s","t","s"," ">>
S_CostSp == <<" ","c","o","s","t"," ">>

TextEntry(unit, price) ==
  [unit |-> Strip(unit), price |-> <<"$">> \o Strip(price),
   hasDescription |-> FALSE, description |-> << >>]

\* r'\$([\d,.]+) per ([\w\s-]+)' at position i: [ok, last, entry]
MatchPer(text, i) ==
  LET e1 == RunEnd(text, i + 1, PriceChars)
      e2 == RunEnd(text, e1 + 6, UnitChars)
  IN  IF /\ text[i] = "$"
         /\ e1 >= i + 1
         /\ At(S_Per, text, e1 + 1)
         /\ e2 >= e1 + 6
      THEN [ok |-> TRUE, last |-> e2,
            entry |-> TextEntry(SubSeq(text, e1 + 6, e2), SubSeq(text, i + 1, e1))]
      ELSE [ok |-> FALSE, last |-> i, entry |-> TextEntry(<< >>, << >>)]

\* r'([\w\s-]+) costs? \$([\d,.]+)' at position i
MatchCosts(text, i) ==
  LET e == RunEnd(text, i, UnitChars)
      tail == IF At(S_CostsSp, text, e - 6) THEN 7
              ELSE IF At(S_CostSp, text, e - 5) THEN 6 ELSE 0
      e2 == RunEnd(text, e + 2, PriceChars)
  IN  IF /\ tail > 0
         /\ e - tail >= i
         /\ e + 1 <= Len(text) /\ text[e + 1] = "$"
         /\ e2 >= e + 2
      THEN [ok |-> TRUE, last |-> e2,
            entry |-> TextEntry(SubSeq(text, i, e - tail), SubSeq(text, e + 2, e2))]
      ELSE [ok |-> FALSE, last |-> i, entry |-> TextEntry(<< >>, << >>)]

\* r'([\w\s-]+): \$([\d,.]+)' at position i
MatchColon(text, i) ==
  LET e == RunEnd(text, i, UnitChars)
      e2 == RunEnd(text, e + 4, PriceChars)
  IN  IF /\ e >= i
         /\ At(<<":", " ", "$">>, text, e + 1)
         /\ e2 >= e + 4
      THEN [ok |-> TRUE, last |-> e2,
            entry |-> TextEntry(SubSeq(text, i, e), SubSeq(text, e + 4, e2))]
      ELSE [ok |-> FALSE, last |-> i, entry |-> TextEntry(<< >>, << >>)]

price_patterns == <<"per", "costs", "colon">>

MatchAt(pattern, text, i) ==
  CASE pattern = "per"   -> MatchPer(text, i)
    [] pattern = "costs" -> MatchCosts(text, i)
    [] pattern = "colon" -> MatchColon(text, i)

\* re.findall(pattern, price_text): the matches from left to right, each
\* search resuming after the previous match
RECURSIVE FindAll(_, _, _)
FindAll(pattern, text, i) ==
  IF i > Len(text) THEN << >>
  ELSE LET m == MatchAt(pattern, text, i)
       IN  IF m.ok THEN <<m.entry>> \o FindAll(pattern, text, m.last + 1)
           ELSE FindAll(pattern, text, i + 1)

\* the patterns tried in order, stopping at the first one that matches
ExtractPrices_first_pattern(text) ==
  LET section == PriceSection(text)
      found == {k \in 1..Len(price_patterns) :
                  FindAll(price_patterns[k], section.text, 1) # << >>}
  IN  IF section.found /\ found # {}
      THEN FindAll(price_patterns[Min(found)], section.text, 1)
      ELSE << >>

ExtractPrices(text) ==
  LET section == PriceSection(text)
  IN  IF section.found
      THEN Concat([k \in 1..Len(price_patterns) |->
                     FindAll(price_patterns[k], section.text, 1)])
      ELSE << >>

ScrapedTextStrategy(text, service_name, ps) ==
  [ps EXCEPT
     !.service_description =
        ExtractDescription(description_patterns(service_name), text),
     !.unit_pricing = @ \o ExtractPrices(text)]

-----------------------------------------------------------------------------
(* parse_pricing_data: usage levels and projections *)

\* multipliers with the high level at 3.0
multipliers_tripled ==
  [low |-> [num |-> 5, scale |-> 1],
   medium |-> [num |-> 10, scale |-> 1],
   high |-> [num |-> 30, scale |-> 1]]

multipliers ==
  [low |-> [num |-> 5, scale |-> 1],
   medium |-> [num |-> 10, scale |-> 1],
   high |-> [num |-> 20, scale |-> 1]]

Levels == <<"low", "medium", "high">>

StripPrice(s) == Remove(Remove(s, "$"), ",")

LevelCost(price, multiplier) ==
  LET p == ParseFloat(StripPrice(price))
  IN  IF p.ok THEN <<"$">> \o Format2f(Mul(p, multiplier)) ELSE S_Sentinel

\* the first entry of a unit decides: a unit already stored is left alone
RECURSIVE LevelCosts_first_wins(_, _, _)
LevelCosts_first_wins(unit_pricing, multiplier, level_costs) ==
  IF unit_pricing = << >> THEN level_costs
  ELSE LevelCosts_first_wins(
         Tail(unit_pricing), multiplier,
         IF Head(unit_pricing).unit \in DOMAIN level_costs THEN level_costs
         ELSE Put(level_costs, Head(unit_pricing).unit,
                  LevelCost(Head(unit_pricing).price, multiplier)))

RECURSIVE LevelCosts(_, _, _)
LevelCosts(unit_pricing, multiplier, level_costs) ==
  IF unit_pricing = << >> THEN level_costs
  ELSE LevelCosts(Tail(unit_pricing), multiplier,
                  Put(level_costs, Head(unit_pricing).unit,
                      LevelCost(Head(unit_pricing).price, multiplier)))

RECURSIVE FillLevels(_, _, _)
FillLevels(usage_levels, unit_pricing, levels) ==
  IF levels = << >> THEN usage_levels
  ELSE FillLevels(Put(usage_levels, Head(levels),
                      LevelCosts(unit_pricing, multipliers[Head(levels)], EmptyDict)),
                  unit_pricing, Tail(levels))

UsageLevels(usage_levels, unit_pricing) ==
  IF unit_pricing # << >> THEN FillLevels(usage_levels, unit_pricing, Levels)
  ELSE usage_levels

Zero == [num |-> 0, scale |-> 0]

\* the numeric value a cost string adds to a total: 0 for a string without
\* '$' or one that float() rejects
CostValue(cost) ==
  LET p == ParseFloat(StripPrice(cost))
  IN  IF "$" \in Range(cost) /\ p.ok THEN p ELSE Zero

RECURSIVE SumCosts(_, _)
SumCosts(costs, units) ==
  IF units = {} THEN Zero
  ELSE LET u == CHOOSE x \in units : TRUE
       IN  Add(CostValue(costs[u]), SumCosts(costs, units \ {u}))

DefaultBaseline == 100

\* Baseline falling back only when there is no medium cost at all
Baseline_unless_empty(medium) ==
  IF DOMAIN medium = {} THEN [num |-> DefaultBaseline, scale |-> 0]
  ELSE SumCosts(medium, DOMAIN medium)

Baseline(medium) ==
  LET total == SumCosts(medium, DOMAIN medium)
  IN  IF total.num = 0 THEN [num |-> DefaultBaseline, scale |-> 0] ELSE total

\* months without the last one
months_short == <<1, 3, 6>>

months == <<1, 3, 6, 12>>

\* growth rates in tenths: 1.0, 1.1, 1.2
growth_rates == [steady |-> 10, moderate |-> 11, rapid |-> 12]

GrowthNames == <<"steady", "moderate", "rapid">>

\* fixed point with twelve decimals below the cent, in two limbs
Limb == 1000000

\* x * (r / 10), exactly
MulRate(x, r) ==
  LET lo == x.lo * r
      hi == x.hi * r + lo \div Limb
      i  == x.i * r + hi \div Limb
      l2 == lo % Limb
      h2 == hi % Limb
  IN  [i |-> i \div 10,
       hi |-> ((i % 10) * Limb + h2) \div 10,
       lo |-> ((h2 % 10) * Limb + l2) \div 10]

RECURSIVE Compound(_, _, _)
Compound(x, r, m) == IF m = 0 THEN x ELSE Compound(MulRate(x, r), r, m - 1)

\* f'${baseline * growth_rate ** month:.2f}'
ProjectedCost(baseline, rate, month) ==
  LET x == Compound([i |-> Cents(baseline), hi |-> 0, lo |-> 0], rate, month)
      up == \/ x.hi > Limb \div 2
            \/ x.hi = Limb \div 2 /\ (x.lo > 0 \/ x.i % 2 = 1)
  IN  <<"$">> \o FormatCents(IF up THEN x.i + 1 ELSE x.i)

MonthKey(month) == S_Month \o NatToDigits(month)

RECURSIVE MonthlyCosts(_, _, _, _)
MonthlyCosts(baseline, rate, ms, monthly_costs) ==
  IF ms = << >> THEN monthly_costs
  ELSE MonthlyCosts(baseline, rate, Tail(ms),
                    Put(monthly_costs, MonthKey(Head(ms)),
                        ProjectedCost(baseline, rate, Head(ms))))

RECURSIVE ProjectedCosts(_, _, _)
ProjectedCosts(projected_costs, baseline, names) ==
  IF names = << >> THEN projected_costs
  ELSE ProjectedCosts(Put(projected_costs, Head(names),
                          MonthlyCosts(baseline, growth_rates[Head(names)],
                                       months, EmptyDict)),
                      baseline, Tail(names))

\* get_default_cost_factors
get_default_cost_factors(service_name) ==
  LET service_name_lower == Lower(service_name)
  IN  IF Contains(K_lambda, service_name_lower)
      THEN <<"Number of requests", "Duration of execution",
             "Memory allocated", "Data transfer out">>
      ELSE IF Contains(K_dynamodb, service_name_lower)
      THEN <<"Read and write throughput", "Storage used",
             "Data transfer", "Backup and restore operations">>
      ELSE IF Contains(K_s3, service_name_lower)
      THEN <<"Storage used", "Requests made",
             "Data transfer", "Storage class transitions">>
      ELSE IF Contains(K_bedrock, service_name_lower)
      THEN <<"Model used", "Input tokens processed",
             "Output tokens generated", "Request frequency">>
      ELSE <<"Usage volume", "Resource allocation",
             "Data transfer", "Operation frequency">>

-----------------------------------------------------------------------------
(* generate_cost_table and _generate_csv_report.  A report is modelled by  *)
(* the values it prints, in the order of its sections.                     *)

S_Ellipsis == <<".", ".", ".">>

\* s.split(' ')[0]
FirstToken(s) == SubSeq(s, 1, RunEnd(s, 1, Range(s) \ {" "}))

FreeTierInfo(free_tier) ==
  IF Len(free_tier) > 50 THEN SubSeq(free_tier, 1, 47) \o S_Ellipsis ELSE free_tier

UnitPricingDetailsRow(item, service_name, free_tier_info) ==
  [service |-> service_name,
   resource_type |-> FirstToken(IF item.hasDescription THEN item.description
                                ELSE item.unit),
   unit |-> item.unit,
   price |-> item.price,
   free_tier |-> free_tier_info]

UnitPricingDetailsTable(pricing_structure) ==
  LET free_tier_info == FreeTierInfo(pricing_structure.free_tier)
      items == pricing_structure.unit_pricing
  IN  IF items # << >>
      THEN [k \in 1..Len(items) |->
              UnitPricingDetailsRow(items[k], pricing_structure.service_name,
                                    free_tier_info)]
      ELSE << [service |-> pricing_structure.service_name,
               resource_type |-> S_NA, unit |-> S_NA, price |-> S_NA,
               free_tier |-> free_tier_info] >>

\* f'${total:.2f}' if total > 0 else 'Varies', followed by suffix
TotalDisplay(total, suffix) ==
  IF total.num > 0 THEN <<"$">> \o Format2f(total) \o suffix ELSE S_Varies

\* the total of one level's costs
LevelTotal(costs) == SumCosts(costs, DOMAIN costs)

\* the loop of the usage-cost table adds each cost to its loop variable
\* 'total', a copy of total_low, total_med or total_high: the three totals
\* keep the value 0 they are given before the loop
UsageTotals(usage_levels) == [low |-> Zero, medium |-> Zero, high |-> Zero]

UsageCostRow(usage_levels) ==
  LET totals == UsageTotals(usage_levels)
  IN  [low_display |-> TotalDisplay(totals.low, S_PerMonth),
       med_display |-> TotalDisplay(totals.medium, S_PerMonth),
       high_display |-> TotalDisplay(totals.high, S_PerMonth)]

ProjectedCostsRow(costs) ==
  [k \in 1..Len(months) |->
     IF MonthKey(months[k]) \in DOMAIN costs THEN costs[MonthKey(months[k])]
     ELSE S_NA]

generate_cost_table(pricing_structure) ==
  [unit_pricing_details_table |-> UnitPricingDetailsTable(pricing_structure),
   cost_calculation_table |->
     IF "medium" \in DOMAIN pricing_structure.usage_levels
     THEN << TotalDisplay(LevelTotal(pricing_structure.usage_levels["medium"]),
                          << >>) >>
     ELSE << >>,
   usage_cost_table |-> UsageCostRow(pricing_structure.usage_levels),
   projected_costs_table |->
     [g \in DOMAIN pricing_structure.projected_costs |->
        ProjectedCostsRow(pricing_structure.projected_costs[g])]]

MarkdownReport(pricing_structure, service_name) ==
  [format |-> "markdown",
   title |-> service_name,
   overview |-> pricing_structure.service_description,
   assumptions |-> pricing_structure.assumptions,
   tables |-> generate_cost_table(pricing_structure),
   free_tier |-> pricing_structure.free_tier,
   key_cost_factors |-> pricing_structure.key_cost_factors,
   immediate |-> pricing_structure.recommendations.immediate,
   best_practices |-> pricing_structure.recommendations.best_practices]

_generate_csv_report(pricing_data, service_name) ==
  [format |-> "csv",
   name |-> service_name,
   description |-> pricing_data.service_description,
   unit_pricing |->
     [k \in 1..Len(pricing_data.unit_pricing) |->
        LET price_info == pricing_data.unit_pricing[k]
        IN  << IF price_info.hasDescription THEN price_info.description ELSE S_NA,
               price_info.unit, price_info.price >>],
   usage_based_costs |->
     [level \in DOMAIN pricing_data.usage_levels |->
        TotalDisplay(LevelTotal(pricing_data.usage_levels[level]), << >>)],
   key_cost_factors |-> pricing_data.key_cost_factors,
   immediate |-> pricing_data.recommendations.immediate,
   best_practices |-> pricing_data.recommendations.best_practices]

-----------------------------------------------------------------------------
(* generate_well_architected_recommendations *)

\* the longest list it returns
RecLimit == 5

BaseImmediate ==
  <<"Right-size resources based on actual usage patterns",
    "Implement cost allocation tags to track spending by component",
    "Set up AWS Budgets alerts to monitor costs">>

BaseBestPractices ==
  <<"Regularly review and analyze cost patterns with AWS Cost Explorer",
    "Consider reserved capacity options for predictable workloads",
    "Implement automated scaling based on demand">>

BedrockImmediate ==
  "Optimize prompt engineering to reduce token usage in Bedrock models"

BedrockPractice ==
  "Monitor runtime metrics with CloudWatch filtered by application inference profile ARN"

LambdaImmediate ==
  "Optimize Lambda memory settings based on function requirements"

LambdaPractice ==
  "Use AWS Lambda Power Tuning tool to find optimal memory settings"

S3Practice ==
  "Implement S3 lifecycle policies to transition older data to cheaper storage tiers"

DynamoDBPractice ==
  "Use DynamoDB on-demand capacity for unpredictable workloads"

\* any(keyword == s for s in services_lower)
AnyService_exact(keyword, names) ==
  \E k \in 1..Len(names) : Lower(names[k]) = keyword

\* any(keyword in s for s in services_lower)
AnyService(keyword, names) ==
  \E k \in 1..Len(names) : Contains(keyword, Lower(names[k]))

\* list[-RecLimit:]
Truncate_tail(list) ==
  SubSeq(list, IF Len(list) > RecLimit THEN Len(list) - RecLimit + 1 ELSE 1, Len(list))

\* list[:RecLimit]
Truncate(list) == Prefix(list, RecLimit)

-----------------------------------------------------------------------------
(* Inputs *)

N_Lambda == <<"L","a","m","b","d","a">>

N_DynamoDB == <<"A","m","a","z","o","n","D","y","n","a","m","o","D","B">>

N_Bedrock == <<"A","m","a","z","o","n"," ","B","e","d","r","o","c","k">>

N_LAMBDA == <<"A","W","S"," ","L","A","M","B","D","A">>

N_s3 == <<"s","3">>

N_S3Dynamo ==
  <<"S","3"," ","a","n","d"," ","D","y","n","a","m","o","D","B">>

N_LambdaBedrock ==
  <<"L","a","m","b","d","a"," ","o","n"," ","B","e","d","r","o","c","k">>

N_EC2 == <<"E","C","2">>

U_Requests == <<"R","e","q","u","e","s","t","s">>

U_GBSecond == <<"G","B","-","S","e","c","o","n","d">>

U_GB == <<"G","B">>

P_020 == <<"0",".","2","0">>

P_0125 == <<"0",".","1","2","5">>

P_1000 == <<"1",",","0","0","0",".","5","0">>

D_Requests ==
  <<"R","e","q","u","e","s","t"," ","c","h","a","r","g","e"," ","p","e","r",
    " ","1","M">>

D_Compute ==
  <<"C","o","m","p","u","t","e"," ","d","u","r","a","t","i","o","n">>

A_Serverless == <<"S","e","r","v","e","r","l","e","s","s">>

A_Runs == <<"r","u","n","s"," ","c","o","d","e">>

A_Compute == <<"C","o","m","p","u","t","e">>

A_Scales == <<"s","c","a","l","e","s">>

A_Storage == <<"S","t","o","r","a","g","e">>

Dim(unit, usd, description) ==
  [hasPricePerUnit |-> TRUE, hasUnit |-> TRUE, unit |-> unit,
   hasUSD |-> TRUE, usd |-> usd, description |-> description]

\* {"pricePerUnit": {}, "unit": "Requests"}: no USD price
DimNoUSD ==
  [hasPricePerUnit |-> TRUE, hasUnit |-> TRUE, unit |-> U_Requests,
   hasUSD |-> FALSE, usd |-> << >>, description |-> << >>]

\* {"pricePerUnit": {"USD": "0.20"}}: no unit
DimNoUnit ==
  [hasPricePerUnit |-> TRUE, hasUnit |-> FALSE, unit |-> << >>,
   hasUSD |-> TRUE, usd |-> P_020, description |-> << >>]

NoProduct ==
  [hasAttributes |-> FALSE, hasProductFamily |-> FALSE, productFamily |-> << >>,
   hasDescription |-> FALSE, description |-> << >>]

Item(kind, product, terms) == [kind |-> kind, product |-> product, terms |-> terms]

\* a well-formed record: one term type, one offer, one price dimension
PlainRecord ==
  Item("object",
       [hasAttributes |-> TRUE, hasProductFamily |-> TRUE,
        productFamily |-> A_Serverless,
        hasDescription |-> TRUE, description |-> A_Runs],
       << << << Dim(U_Requests, P_020, D_Requests) >> >> >>)

\* a well-formed record: two term types, four price dimensions, one of them
\* without a USD price and one without a unit
SecondRecord ==
  Item("object",
       [hasAttributes |-> TRUE, hasProductFamily |-> TRUE,
        productFamily |-> A_Compute,
        hasDescription |-> TRUE, description |-> A_Scales],
       << << << Dim(U_GBSecond, P_0125, D_Compute), DimNoUSD >> >>,
          << << DimNoUnit >>, << Dim(U_GB, P_1000, << >>) >> >> >>)

\* '{"product": {"attributes": {"productFamily": "Storage"}}}': no terms,
\* no description attribute
BareRecord ==
  Item("object",
       [hasAttributes |-> TRUE, hasProductFamily |-> TRUE,
        productFamily |-> A_Storage,
        hasDescription |-> FALSE, description |-> << >>],
       << >>)

\* a string that is no JSON, e.g. '{bad'
BadJson == Item("badjson", NoProduct, << >>)

\* a string that decodes to a JSON array, e.g. '[1]'
ArrayJson == Item("array", NoProduct, << >>)

\* an element that is no string, e.g. a dict
NotString == Item("notstr", NoProduct, << >>)

Records == {PlainRecord, SecondRecord, BareRecord, BadJson, ArrayJson, NotString}

DataLists ==
  {l \in UNION {[1..n -> Records] : n \in 0..MaxData} :
     Cardinality({i \in DOMAIN l : l[i] # PlainRecord}) <= MaxSpecial}

T_Lambda ==
  <<"L","a","m","b","d","a"," ","i","s"," ","a"," ","f","u","l","l","y"," ",
    "m","a","n","a","g","e","d"," ","s","e","r","v","i","c","e"," ","t","h",
    "a","t"," ","r","u","n","s"," ","c","o","d","e"," ","w","i","t","h","o",
    "u","t"," ","s","e","r","v","e","r","s","."," ","P","r","i","c","i","n",
    "g",":"," ","R","e","q","u","e","s","t"," ","c","o","s","t","s"," ","$",
    "0",".","2","0"," ","p","e","r"," ","1","M"," ","r","e","q","u","e","s",
    "t","s","."," ","F","r","e","e"," ","T","i","e","r"," ","i","n","c","l",
    "u","d","e","s"," ","1","M"," ","r","e","q","u","e","s","t","s",".">>

T_Dynamo ==
  <<"A","m","a","z","o","n","D","y","n","a","m","o","D","B"," ","i","s"," ",
    "a"," ","s","e","r","v","e","r","l","e","s","s"," ","s","e","r","v","i",
    "c","e"," ","t","h","a","t"," ","s","c","a","l","e","s","."," ","F","e",
    "e","s"," ","S","t","o","r","a","g","e",":"," ","$","1",",","0","0","0",
    ".","5","0"," ","R","e","a","d","s"," ","c","o","s","t"," ","$","0",".",
    "1","2","5"," ","B","e","n","e","f","i","t","s">>

T_NoSection ==
  <<"W","e","l","c","o","m","e"," ","t","o"," ","A","W","S","."," ","R","e",
    "q","u","e","s","t","s",":"," ","$","0",".","2","0">>

T_Unparsed ==
  <<"L","a","m","b","d","a"," ","i","s"," ","a","n"," ","A","W","S"," ","s",
    "e","r","v","i","c","e"," ","t","h","a","t"," ","."," ","P","r","i","c",
    "e"," ","R","e","q","u","e","s","t","s",":"," ","$","1",".","2",".","3",
    " ","F","A","Q","s">>

T_Tiny ==
  <<"P","r","i","c","e"," ","R","e","q","u","e","s","t","s",":"," ","$","0",
    ".","0","0","4"," ","F","A","Q","s">>

Texts == {T_Lambda, T_Dynamo, T_NoSection, T_Unparsed, T_Tiny}

Data(kind, text, list) == [kind |-> kind, text |-> text, list |-> list]

\* the values of pricing_data['data']: absent, a number, a text, a list
DataValues ==
  {Data("missing", << >>, << >>), Data("other", << >>, << >>)}
    \cup {Data("str", t, << >>) : t \in Texts}
    \cup {Data("list", << >>, l) : l \in DataLists}

\* the values of event['pricing_data']: absent, {}, a non-empty string, a
\* non-empty dict
PricingDataValues ==
  {[kind |-> k, data |-> Data("missing", << >>, << >>)] :
     k \in {"absent", "empty", "nondict"}}
    \cup {[kind |-> "dict", data |-> d] : d \in DataValues}

\* the values of event['service_name']: absent, '', a name
ServiceNameValues ==
  {[present |-> FALSE, value |-> << >>], [present |-> TRUE, value |-> << >>],
   [present |-> TRUE, value |-> N_Lambda], [present |-> TRUE, value |-> N_DynamoDB]}

Events == [pricing_data : PricingDataValues, service_name : ServiceNameValues]

F_CSV == <<"C","S","V">>

F_pdf == <<"p","d","f">>

\* the values of event['format']: absent, null, a string
Formats ==
  {[kind |-> "absent", value |-> << >>], [kind |-> "null", value |-> << >>]}
    \cup {[kind |-> "str", value |-> f] : f \in {K_csv, F_CSV, K_markdown, F_pdf}}

ServiceNames ==
  {N_Bedrock, N_LAMBDA, N_s3, N_DynamoDB, N_S3Dynamo, N_LambdaBedrock, N_EC2}

ServiceNameLists == UNION {[1..n -> ServiceNames] : n \in 0..MaxNames}

-----------------------------------------------------------------------------
(* State *)

VARIABLES
  pc,                 \* where lambda_handler stands
  event,              \* the event of the invocation
  format,             \* event.get('format', 'markdown'), read when rendering starts
  pricing_structure,  \* the structure parse_pricing_data builds
  baseline,           \* the projection baseline
  report,             \* what generate_cost_report returns
  exception,          \* the text of the exception being propagated
  result,             \* what lambda_handler returns
  rpc,                \* where generate_well_architected_recommendations stands
  service_names,      \* its argument
  recommendations,    \* its dict of the two lists
  augmented,          \* history: the two lists as they were before truncation
  first,              \* history: the first finished invocation of lambda_handler
  rfirst              \* history: the first finished call of the recommendations

handlerVars ==
  <<pc, event, format, pricing_structure, baseline, report, exception, result>>

recVars == <<rpc, service_names, recommendations, augmented>>

vars == <<handlerVars, recVars, first, rfirst>>

NoFormat == [kind |-> "absent", value |-> << >>]

NoReport == [format |-> "none"]

NoResult == [status |-> "none", message |-> << >>, report |-> NoReport]

NoRecommendations == [immediate |-> << >>, best_practices |-> << >>]

NoCall == [set |-> FALSE, key |-> << >>, result |-> << >>, later |-> FALSE]

\* lambda_handler(None, context): event.get raises inside the try
NullEvent ==
  [isDict |-> FALSE,
   pricing_data |-> [kind |-> "absent", data |-> Data("missing", << >>, << >>)],
   service_name |-> [present |-> FALSE, value |-> << >>]]

DictEvent(e) ==
  [isDict |-> TRUE, pricing_data |-> e.pricing_data, service_name |-> e.service_name]

Init ==
  /\ pc = "idle"
  /\ event = NullEvent
  /\ format = NoFormat
  /\ pricing_structure = NewPricingStructure(<< >>)
  /\ baseline = Zero
  /\ report = NoReport
  /\ exception = ""
  /\ result = NoResult
  /\ rpc = "idle"
  /\ service_names = << >>
  /\ recommendations = NoRecommendations
  /\ augmented = NoRecommendations
  /\ first = NoCall
  /\ rfirst = NoCall

-----------------------------------------------------------------------------
(* lambda_handler and generate_cost_report *)

Respond(status, message, rep) ==
  [status |-> status, message |-> message, report |-> rep]

\* not pricing_data
MissingPricingData(ev) == ev.pricing_data.kind \in {"absent", "empty"}

\* service_name is never tested
MissingServiceName_unchecked(ev) == FALSE

\* not service_name
MissingServiceName(ev) == ~ev.service_name.present \/ ev.service_name.value = << >>

\* lambda_handler up to the call of generate_cost_report: the parameters are
\* read and the two required ones are checked, pricing_data first
lambda_handler(ev) ==
  /\ event' = ev
  /\ format' = NoFormat
  /\ pricing_structure' = NewPricingStructure(<< >>)
  /\ baseline' = Zero
  /\ report' = NoReport
  /\ \/ /\ ~ev.isDict
        /\ pc' = "raised"
        /\ exception' = "'NoneType' object has no attribute 'get'"
        /\ result' = NoResult
     \/ /\ ev.isDict
        /\ MissingPricingData(ev)
        /\ pc' = "done"
        /\ exception' = ""
        /\ result' = Respond("error", <<"Missing pricing_data parameter">>, NoReport)
     \/ /\ ev.isDict
        /\ ~MissingPricingData(ev)
        /\ MissingServiceName(ev)
        /\ pc' = "done"
        /\ exception' = ""
        /\ result' = Respond("error", <<"Missing service_name parameter">>, NoReport)
     \/ /\ ev.isDict
        /\ ~MissingPricingData(ev)
        /\ ~MissingServiceName(ev)
        /\ pc' = "parse"
        /\ exception' = ""
        /\ result' = NoResult

Invoke ==
  /\ pc = "idle"
  /\ \E ev \in {NullEvent} \cup {DictEvent(e) : e \in Events} : lambda_handler(ev)
  /\ UNCHANGED <<recVars, first, rfirst>>

\* the default left out
DefaultDescription_skipped(ps, service_name) == ps

\* if not pricing_structure['service_description']: the default is set
DefaultDescription(ps, service_name) ==
  IF ps.service_description = << >>
  THEN [ps EXCEPT !.service_description =
                     S_Provides \o service_name \o S_Functionality]
  ELSE ps

\* what the normalisation leaves: [ps, raised, error]
Normalized(pricing_data, service_name) ==
  LET ps0 == NewPricingStructure(service_name)
      st0 == [ps |-> ps0, raised |-> FALSE, error |-> ""]
      st  == IF pricing_data.kind # "dict"
             THEN [st0 EXCEPT !.raised = TRUE,
                              !.error = "'str' object has no attribute 'get'"]
             ELSE IF pricing_data.data.kind = "str"
             THEN [st0 EXCEPT
                     !.ps = ScrapedTextStrategy(pricing_data.data.text,
                                                service_name, ps0)]
             ELSE StructuredStrategy(pricing_data.data, st0)
  IN  IF st.raised THEN st
      ELSE [st EXCEPT !.ps = DefaultDescription(@, service_name)]

\* parse_pricing_data, the structure and the extraction
Normalize ==
  /\ pc = "parse"
  /\ LET st == Normalized(event.pricing_data, event.service_name.value)
     IN  /\ pricing_structure' = st.ps
         /\ exception' = st.error
         /\ pc' = IF st.raised THEN "raised" ELSE "levels"
  /\ UNCHANGED <<event, format, baseline, report, result, recVars, first, rfirst>>

\* parse_pricing_data, the usage levels and the cost factors
CostLevels ==
  /\ pc = "levels"
  /\ pricing_structure' =
       [pricing_structure EXCEPT
          !.usage_levels = UsageLevels(@, pricing_structure.unit_pricing),
          !.key_cost_factors = get_default_cost_factors(event.service_name.value)]
  /\ pc' = "project"
  /\ UNCHANGED <<event, format, baseline, report, exception, result,
                 recVars, first, rfirst>>

\* parse_pricing_data, the baseline and the projections
Project ==
  /\ pc = "project"
  /\ baseline' = Baseline(pricing_structure.usage_levels["medium"])
  /\ pricing_structure' =
       [pricing_structure EXCEPT
          !.projected_costs = ProjectedCosts(@, baseline', GrowthNames)]
  /\ pc' = "render"
  /\ UNCHANGED <<event, format, report, exception, result, recVars, first, rfirst>>

\* format.lower() == 'csv'
IsCsv(f) == Lower(IF f.kind = "absent" THEN K_markdown ELSE f.value) = K_csv

\* generate_cost_report after parse_pricing_data: the format is chosen and
\* the report rendered
RenderWith(formats) ==
  /\ pc = "render"
  /\ \E f \in formats :
       /\ format' = f
       /\ \/ /\ f.kind = "null"
             /\ exception' = "'NoneType' object has no attribute 'lower'"
             /\ report' = report
             /\ pc' = "raised"
          \/ /\ f.kind # "null"
             /\ report' = IF IsCsv(f)
                          THEN _generate_csv_report(pricing_structure,
                                                    event.service_name.value)
                          ELSE MarkdownReport(pricing_structure,
                                              event.service_name.value)
             /\ exception' = exception
             /\ pc' = "return"
  /\ UNCHANGED <<event, pricing_structure, baseline, result, recVars, first, rfirst>>

Render == RenderWith(Formats)

\* lambda_handler, the success envelope
ReturnSuccess ==
  /\ pc = "return"
  /\ result' = Respond("success",
                       <<"Generated cost report for ", event.service_name.value>>,
                       report)
  /\ pc' = "done"
  /\ UNCHANGED <<event, format, pricing_structure, baseline, report, exception,
                 recVars, first, rfirst>>

\* lambda_handler, the except clause
ReturnError ==
  /\ pc = "raised"
  /\ result' = Respond("error", <<"Error generating cost report: ", exception>>,
                       NoReport)
  /\ pc' = "done"
  /\ UNCHANGED <<event, format, pricing_structure, baseline, report, exception,
                 recVars, first, rfirst>>

Next ==
  \/ Invoke
  \/ Normalize
  \/ CostLevels
  \/ Project
  \/ Render
  \/ ReturnSuccess
  \/ ReturnError

Spec == Init /\ [][Next]_vars

-----------------------------------------------------------------------------
(* generate_well_architected_recommendations, one step per statement *)

\* the call: the dict of the two base lists is built
\* the two base lists kept as module-level objects: a later call starts from
\* the lists the previous call left
BaseRecommendations_shared ==
  IF rpc = "idle"
  THEN [immediate |-> BaseImmediate, best_practices |-> BaseBestPractices]
  ELSE recommendations

\* the dict built at the start of every call
BaseRecommendations ==
  [immediate |-> BaseImmediate, best_practices |-> BaseBestPractices]

Recommend(names) ==
  /\ service_names' = names
  /\ recommendations' = BaseRecommendations
  /\ augmented' = NoRecommendations
  /\ rpc' = "bedrock"

WA_Call ==
  /\ rpc \in {"idle", "done"}
  /\ \E names \in ServiceNameLists : Recommend(names)
  /\ UNCHANGED <<handlerVars, first, rfirst>>

WA_Bedrock ==
  /\ rpc = "bedrock"
  /\ recommendations' =
       IF AnyService(K_bedrock, service_names)
       THEN [immediate |-> <<BedrockImmediate>> \o recommendations.immediate,
             best_practices |-> Append(recommendations.best_practices, BedrockPractice)]
       ELSE recommendations
  /\ rpc' = "lambda"
  /\ UNCHANGED <<handlerVars, service_names, augmented, first, rfirst>>

WA_Lambda ==
  /\ rpc = "lambda"
  /\ recommendations' =
       IF AnyService(K_lambda, service_names)
       THEN [immediate |-> Append(recommendations.immediate, LambdaImmediate),
             best_practices |-> Append(recommendations.best_practices, LambdaPractice)]
       ELSE recommendations
  /\ rpc' = "s3"
  /\ UNCHANGED <<handlerVars, service_names, augmented, first, rfirst>>

WA_S3 ==
  /\ rpc = "s3"
  /\ recommendations' =
       IF AnyService(K_s3, service_names)
       THEN [recommendations EXCEPT !.best_practices = Append(@, S3Practice)]
       ELSE recommendations
  /\ rpc' = "dynamodb"
  /\ UNCHANGED <<handlerVars, service_names, augmented, first, rfirst>>

WA_DynamoDB ==
  /\ rpc = "dynamodb"
  /\ recommendations' =
       IF AnyService(K_dynamodb, service_names)
       THEN [recommendations EXCEPT !.best_practices = Append(@, DynamoDBPractice)]
       ELSE recommendations
  /\ rpc' = "truncate"
  /\ UNCHANGED <<handlerVars, service_names, augmented, first, rfirst>>

\* the two slices and the return
WA_Truncate ==
  /\ rpc = "truncate"
  /\ augmented' = recommendations
  /\ recommendations' =
       [immediate |-> Truncate(recommendations.immediate),
        best_practices |-> Truncate(recommendations.best_practices)]
  /\ rpc' = "done"
  /\ UNCHANGED <<handlerVars, service_names, first, rfirst>>

WA_Steps == WA_Bedrock \/ WA_Lambda \/ WA_S3 \/ WA_DynamoDB \/ WA_Truncate

NextRec == WA_Call \/ WA_Steps

SpecRec == Init /\ [][NextRec]_vars

-----------------------------------------------------------------------------
(* Repeated calls, one at a time: a call starts when no other call runs.   *)
(* The history variables keep the first finished call of each function.    *)

FewEvents ==
  {DictEvent([pricing_data |-> [kind |-> "dict", data |-> d],
              service_name |-> [present |-> TRUE, value |-> N_Lambda]]) :
     d \in {Data("str", T_Lambda, << >>),
            Data("list", << >>, <<SecondRecord, PlainRecord>>),
            Data("list", << >>, <<PlainRecord, ArrayJson>>)}}
  \cup
  {DictEvent([pricing_data |-> [kind |-> "dict", data |-> Data("str", T_Dynamo, << >>)],
              service_name |-> [present |-> TRUE, value |-> N_DynamoDB]])}

FewFormats == {[kind |-> "absent", value |-> << >>], [kind |-> "str", value |-> K_csv]}

FewServiceNameLists == {<<N_LambdaBedrock>>, <<N_S3Dynamo>>, <<N_EC2>>}

\* handler / recommend tell which function is being called
Remember(handler, recommend) ==
  /\ first' = IF pc = "done" /\ ~first.set
              THEN [set |-> TRUE, key |-> <<event, format>>, result |-> result,
                    later |-> handler]
              ELSE [first EXCEPT !.later = @ \/ (first.set /\ handler)]
  /\ rfirst' = IF rpc = "done" /\ ~rfirst.set
               THEN [set |-> TRUE, key |-> service_names,
                     result |-> recommendations, later |-> recommend]
               ELSE [rfirst EXCEPT !.later = @ \/ (rfirst.set /\ recommend)]

Reinvoke ==
  /\ pc \in {"idle", "done"}
  /\ rpc \in {"idle", "done"}
  /\ \E ev \in FewEvents : lambda_handler(ev)
  /\ Remember(TRUE, FALSE)
  /\ UNCHANGED recVars

RenderFew == RenderWith(FewFormats)

WA_Recall ==
  /\ pc \in {"idle", "done"}
  /\ rpc \in {"idle", "done"}
  /\ \E names \in FewServiceNameLists : Recommend(names)
  /\ Remember(FALSE, TRUE)
  /\ UNCHANGED handlerVars

NextRepeat ==
  \/ Reinvoke
  \/ Normalize
  \/ CostLevels
  \/ Project
  \/ RenderFew
  \/ ReturnSuccess
  \/ ReturnError
  \/ WA_Recall
  \/ WA_Steps

SpecRepeat == Init /\ [][NextRepeat]_vars

-----------------------------------------------------------------------------
(* Claims *)

\* parse_pricing_data has returned its structure to generate_cost_report
Returned == pc \in {"render", "return"}

Abs(x) == IF x < 0 THEN -x ELSE x

\* a cost string '$' + digits + '.' + two digits
IsDollarString(cost) ==
  /\ Len(cost) >= 5
  /\ cost[1] = "$"
  /\ cost[Len(cost) - 2] = "."
  /\ \A i \in 2..Len(cost) : i # Len(cost) - 2 => IsDigit(cost[i])

\* the cents a cost string '$X.XX' shows
ShownCents(cost) == DigitsToNat(SelectSeq(cost, IsDigit))

UnitsOf(unit_pricing) == {unit_pricing[k].unit : k \in 1..Len(unit_pricing)}

LastEntry(unit_pricing, u) ==
  unit_pricing[CHOOSE k \in 1..Len(unit_pricing) :
                 /\ unit_pricing[k].unit = u
                 /\ \A j \in (k + 1)..Len(unit_pricing) : unit_pricing[j].unit # u]

S_100 == <<"$", "1", "0", "0", ".", "0", "0">>

\* C1 (as claimed): when rendering starts the structure carries at least the
\* three base immediate items and the three base best-practice items, the
\* recommendation engine having run between the cost levels and the renderer.
C1_RecommendationsFilledBeforeRender ==
  pc = "render" =>
    /\ Len(pricing_structure.recommendations.immediate) >= 3
    /\ Len(pricing_structure.recommendations.best_practices) >= 3

\* C2 (as claimed): for every entry whose price parses, the stored values of
\* its unit satisfy high = 2 x medium and low = 0.5 x medium; for every entry
\* whose price does not parse, its unit has the sentinel at all three levels.
C2_ExactMultiples ==
  Returned =>
    \A k \in 1..Len(pricing_structure.unit_pricing) :
      LET e == pricing_structure.unit_pricing[k]
          ul == pricing_structure.usage_levels
      IN  IF ParseFloat(StripPrice(e.price)).ok
          THEN /\ \A l \in {"low", "medium", "high"} : IsDollarString(ul[l][e.unit])
               /\ ShownCents(ul["high"][e.unit]) = 2 * ShownCents(ul["medium"][e.unit])
               /\ 2 * ShownCents(ul["low"][e.unit]) = ShownCents(ul["medium"][e.unit])
          ELSE \A l \in {"low", "medium", "high"} : ul[l][e.unit] = S_Sentinel

\* cost shows the cent nearest to p * m10 / 10
NearestCent(cost, p, m10) ==
  /\ IsDollarString(cost)
  /\ 2 * Abs(ShownCents(cost) * Pow10(p.scale + 1) - p.num * m10 * 100)
       <= Pow10(p.scale + 1)

\* C2 (amended): for every unit of unit_pricing the stored values are decided
\* by the last entry with that unit: if its price parses to p they show 0.5p,
\* p and 2p each rounded to the nearest cent, so that high and 2 x medium, and
\* medium and 2 x low, differ by at most one cent; if it does not parse they
\* are the sentinel at all three levels; every unit is processed.
C2_MultiplesToTheCent ==
  Returned =>
    LET up == pricing_structure.unit_pricing
        ul == pricing_structure.usage_levels
    IN  /\ up # << >> =>
             \A l \in {"low", "medium", "high"} : DOMAIN ul[l] = UnitsOf(up)
        /\ \A u \in UnitsOf(up) :
             LET p == ParseFloat(StripPrice(LastEntry(up, u).price))
             IN  IF p.ok
                 THEN /\ NearestCent(ul["low"][u], p, 5)
                      /\ NearestCent(ul["medium"][u], p, 10)
                      /\ NearestCent(ul["high"][u], p, 20)
                      /\ Abs(ShownCents(ul["high"][u])
                               - 2 * ShownCents(ul["medium"][u])) <= 1
                      /\ Abs(ShownCents(ul["medium"][u])
                               - 2 * ShownCents(ul["low"][u])) <= 1
                 ELSE \A l \in {"low", "medium", "high"} : ul[l][u] = S_Sentinel

\* C2 witness: one structure holds a unit whose rounded values are not exact
\* multiples and a unit with the sentinel
C2_Witness ==
  /\ Returned
  /\ \E u \in DOMAIN pricing_structure.usage_levels["medium"] :
       LET ul == pricing_structure.usage_levels
       IN  /\ IsDollarString(ul["medium"][u])
           /\ ShownCents(ul["high"][u]) # 2 * ShownCents(ul["medium"][u])
  /\ \E u \in DOMAIN pricing_structure.usage_levels["medium"] :
       pricing_structure.usage_levels["medium"][u] = S_Sentinel

RECURSIVE SumShownCents(_, _)
SumShownCents(costs, units) ==
  IF units = {} THEN 0
  ELSE LET u == CHOOSE x \in units : TRUE
       IN  (IF IsDollarString(costs[u]) THEN ShownCents(costs[u]) ELSE 0)
             + SumShownCents(costs, units \ {u})

\* C3: the baseline is the sum of the medium-level cost values that parse,
\* and 100 exactly when that sum is zero; without a parseable entry, and with
\* an empty unit_pricing, it is 100 and steady 'Month 1' is '$100.00'.
C3_Baseline ==
  Returned =>
    LET medium == pricing_structure.usage_levels["medium"]
        total == SumShownCents(medium, DOMAIN medium)
        up == pricing_structure.unit_pricing
    IN  /\ Cents(baseline) = IF total = 0 THEN 10000 ELSE total
        /\ (\A k \in 1..Len(up) : ~ParseFloat(StripPrice(up[k].price)).ok)
             => /\ Cents(baseline) = 10000
                /\ pricing_structure.projected_costs["steady"][S_Month \o <<"1">>]
                     = S_100

\* C3 witness: a structure with an empty unit_pricing and '$100.00'
C3_Witness ==
  /\ Returned
  /\ pricing_structure.unit_pricing = << >>
  /\ pricing_structure.projected_costs["steady"][S_Month \o <<"1">>] = S_100

\* C4: every returned structure has usage_levels with exactly the keys low,
\* medium, high and projected_costs with exactly the keys steady, moderate,
\* rapid, each row with exactly the cells Month 1, Month 3, Month 6, Month 12.
C4_FixedKeys ==
  Returned =>
    /\ DOMAIN pricing_structure.usage_levels = {"low", "medium", "high"}
    /\ DOMAIN pricing_structure.projected_costs = {"steady", "moderate", "rapid"}
    /\ \A g \in DOMAIN pricing_structure.projected_costs :
         DOMAIN pricing_structure.projected_costs[g] =
           {S_Month \o <<"1">>, S_Month \o <<"3">>, S_Month \o <<"6">>,
            S_Month \o <<"1", "2">>}

\* C4 witness: a structure returned for a payload without 'data'
C4_Witness ==
  /\ Returned
  /\ event.pricing_data.data.kind = "missing"
  /\ pricing_structure.unit_pricing = << >>

\* the total the usage-cost table is said to show for a level: the parseable
\* costs of that level, over the units of the low-level mapping
ClaimedTotal(usage_levels, level) ==
  SumShownCents(usage_levels[level],
                DOMAIN usage_levels["low"] \cap DOMAIN usage_levels[level])

ClaimedDisplay(usage_levels, level) ==
  IF ClaimedTotal(usage_levels, level) > 0
  THEN <<"$">> \o FormatCents(ClaimedTotal(usage_levels, level)) \o S_PerMonth
  ELSE S_Varies

\* C5 (as claimed): the low, medium and high cells of the usage-cost table
\* show the sums of the parseable costs of their level, suffixed '/month',
\* and 'Varies' only when the sum is zero.
C5_UsageTableTotals ==
  (pc = "return" /\ report.format = "markdown") =>
    LET row == report.tables.usage_cost_table
        ul == pricing_structure.usage_levels
    IN  /\ row.low_display = ClaimedDisplay(ul, "low")
        /\ row.med_display = ClaimedDisplay(ul, "medium")
        /\ row.high_display = ClaimedDisplay(ul, "high")

\* C6: both lists returned by generate_well_architected_recommendations have
\* at most 5 items and each is the prefix, in order, of the augmented list.
C6_AtMostFivePrefix ==
  rpc = "done" =>
    \A key \in {"immediate", "best_practices"} :
      LET got == recommendations[key]
          all == augmented[key]
      IN  /\ Len(got) <= 5
          /\ Len(got) = (IF Len(all) < 5 THEN Len(all) ELSE 5)
          /\ \A i \in 1..Len(got) : got[i] = all[i]

\* C6 witness: a call where all four rules fired and two items were cut
C6_Witness ==
  /\ rpc = "done"
  /\ Len(augmented.best_practices) = 7
  /\ Len(augmented.immediate) = 5

\* the entries of the well-formed records among the first 5 elements
WellFormedEntries(list) ==
  Concat([i \in 1..Len(Prefix(list, 5)) |->
            IF list[i].kind = "object" THEN TermEntries(list[i].terms) ELSE << >>])

ListPayload ==
  /\ event.isDict
  /\ event.pricing_data.kind = "dict"
  /\ event.pricing_data.data.kind = "list"

\* C7 (as claimed): with a list payload a malformed element never makes the
\* normalisation fail (the one failure left is the renderer's, on the
\* format), and the structure returned holds every price dimension of every
\* well-formed record among the first 5 elements.
C7_MalformedSkipped ==
  ListPayload =>
    /\ pc = "raised" => exception = "'NoneType' object has no attribute 'lower'"
    /\ Returned =>
         pricing_structure.unit_pricing
           = WellFormedEntries(event.pricing_data.data.list)

Untouched ==
  /\ pricing_structure = NewPricingStructure(<< >>)
  /\ baseline = Zero
  /\ report = NoReport
  /\ exception = ""

\* C8: lambda_handler always returns an envelope whose status is success or
\* error: an error naming pricing_data when pricing_data is absent, an error
\* naming service_name when only service_name is absent, in both cases with
\* nothing normalised or rendered; a failure of the normalisation or of the
\* rendering gives status error with the failure's text; status success
\* comes only with the generated report.
C8_Envelope ==
  /\ pc = "done" => result.status \in {"success", "error"}
  /\ pc # "done" => result.status = "none"
  /\ (pc = "done" /\ event.isDict /\ event.pricing_data.kind = "absent") =>
       /\ result = [status |-> "error",
                    message |-> <<"Missing pricing_data parameter">>,
                    report |-> NoReport]
       /\ Untouched
  /\ (pc = "done" /\ event.isDict
        /\ event.pricing_data.kind \in {"dict", "nondict"}
        /\ ~event.service_name.present) =>
       /\ result = [status |-> "error",
                    message |-> <<"Missing service_name parameter">>,
                    report |-> NoReport]
       /\ Untouched
  /\ pc = "raised" => exception # ""
  /\ (pc = "done" /\ exception # "") =>
       result = [status |-> "error",
                 message |-> <<"Error generating cost report: ", exception>>,
                 report |-> NoReport]
  /\ result.status = "success" =>
       /\ exception = ""
       /\ report.format \in {"markdown", "csv"}
       /\ result.report = report

\* C8 witness: a failure of the normalisation came back as an error envelope
C8_Witness ==
  /\ pc = "done"
  /\ result.status = "error"
  /\ exception = "'list' object has no attribute 'get'"

\* C9: a call gives what the first finished call with the same inputs gave,
\* whatever calls were made in between: of lambda_handler (the event and the
\* format) and of generate_well_architected_recommendations (the names).
C9_SameInputsSameOutput ==
  /\ (pc = "done" /\ first.set /\ first.key = <<event, format>>)
       => result = first.result
  /\ (rpc = "done" /\ rfirst.set /\ rfirst.key = service_names)
       => recommendations = rfirst.result

\* C9 witness: both functions were called again, after other calls, with the
\* inputs of their first call: a bedrock and lambda list, and a report
C9_Witness ==
  /\ pc = "done" /\ first.set /\ first.later /\ first.key = <<event, format>>
  /\ result.status = "success"
  /\ rpc = "done" /\ rfirst.set /\ rfirst.later /\ rfirst.key = service_names
  /\ service_names = <<N_LambdaBedrock>>

\* no scraped-text template stands in the text and no examined record has
\* both attributes
NoDescriptionSource ==
  LET d == event.pricing_data.data
      name == event.service_name.value
  IN  \/ d.kind \in {"missing", "other"}
      \/ /\ d.kind = "list"
         /\ \A i \in 1..Len(Prefix(d.list, 5)) :
              ~(/\ d.list[i].kind = "object"
                /\ d.list[i].product.hasAttributes
                /\ d.list[i].product.hasProductFamily
                /\ d.list[i].product.hasDescription)
      \/ /\ d.kind = "str"
         /\ \A tpl \in {S_FullyManaged, S_Serverless, S_AwsService} :
              ~Contains(Lower(name \o tpl), Lower(d.text))

\* C10: service_description is never empty in a returned structure; when no
\* template and no record supplies one it is
\* 'provides <service_name> functionality in the AWS cloud'.
C10_DescriptionNeverEmpty ==
  Returned =>
    /\ pricing_structure.service_description # << >>
    /\ NoDescriptionSource =>
         pricing_structure.service_description
           = S_Provides \o event.service_name.value \o S_Functionality

\* C10 witness: a structure returned for data that is neither text nor list
C10_Witness ==
  /\ Returned
  /\ event.pricing_data.data.kind = "other"
  /\ pricing_structure.service_description
       = S_Provides \o event.service_name.value \o S_Functionality

S_RunsCode == <<"r","u","n","s"," ","c","o","d","e"," ","w","i","t","h","o","u","t"," ","s","e","r","v","e","r","s">>
S_1MRequests == <<"1","M"," ","r","e","q","u","e","s","t","s">>
S_Request == <<"R","e","q","u","e","s","t">>
S_Dollar020 == <<"$","0",".","2","0">>

\* the scraped text of the scenario, with service_name 'Lambda'
LambdaScenario ==
  /\ event.isDict
  /\ event.pricing_data.kind = "dict"
  /\ event.pricing_data.data.kind = "str"
  /\ event.pricing_data.data.text = T_Lambda
  /\ event.service_name.value = N_Lambda

UnitsAndPrices(unit_pricing) ==
  [k \in 1..Len(unit_pricing) |-> <<unit_pricing[k].unit, unit_pricing[k].price>>]

\* C11 (as claimed): for the scenario text the description is 'runs code
\* without servers' and unit_pricing is exactly the one entry
\* {unit: '1M requests', price: '$0.20'}.
C11_ScenarioOneEntry ==
  (Returned /\ LambdaScenario) =>
    /\ pricing_structure.service_description = S_RunsCode
    /\ UnitsAndPrices(pricing_structure.unit_pricing)
         = << <<S_1MRequests, S_Dollar020>> >>

\* C11 (amended): for scraped text unit_pricing is the concatenation, in
\* pattern order, of every match of each of the three price-line patterns
\* inside the pricing block, and empty without a pricing block; for the
\* scenario text the description is 'runs code without servers' and the
\* entries are two, {'1M requests', '$0.20'} from '$<price> per <unit>' and
\* then {'Request', '$0.20'} from '<unit> costs $<price>'.
C11_EveryMatchOfEveryPattern ==
  (Returned /\ event.pricing_data.data.kind = "str") =>
    LET section == PriceSection(event.pricing_data.data.text)
        up == pricing_structure.unit_pricing
    IN  /\ up = IF section.found
                THEN FindAll("per", section.text, 1)
                       \o FindAll("costs", section.text, 1)
                       \o FindAll("colon", section.text, 1)
                ELSE << >>
        /\ \A k \in 1..Len(up) : ~up[k].hasDescription
        /\ LambdaScenario =>
             /\ pricing_structure.service_description = S_RunsCode
             /\ UnitsAndPrices(up) = << <<S_1MRequests, S_Dollar020>>,
                                       <<S_Request, S_Dollar020>> >>

\* C11 witness: the structure returned for the scenario text, two entries
C11_Witness ==
  /\ Returned
  /\ LambdaScenario
  /\ Len(pricing_structure.unit_pricing) = 2
  /\ pricing_structure.unit_pricing[2].unit = S_Request

RequestedCsv == format.kind = "str" /\ Lower(format.value) = K_csv

\* C12 (as claimed): the CSV renderer is used exactly when the requested
\* format is 'csv' in any letter case; for every other format value, for no
\* format and for a format that is no usable value the markdown report is
\* produced, so choosing the renderer never ends in an error.
C12_FormatSelection ==
  /\ pc = "return" =>
       report.format = (IF RequestedCsv THEN "csv" ELSE "markdown")
  /\ pc = "raised" =>
       exception # "'NoneType' object has no attribute 'lower'"

\* the names that hold each keyword, in some letter case
NamesWith ==
  [bedrock  |-> {N_Bedrock, N_LambdaBedrock},
   lambda   |-> {N_LAMBDA, N_LambdaBedrock},
   s3       |-> {N_s3, N_S3Dynamo},
   dynamodb |-> {N_DynamoDB, N_S3Dynamo}]

Fired(rule) == \E k \in 1..Len(service_names) : service_names[k] \in NamesWith[rule]

If(cond, item) == IF cond THEN <<item>> ELSE << >>

\* C13: each of the four rules fires when some name holds its keyword, in
\* any letter case, whatever the other rules do: immediate is the bedrock
\* item if bedrock fired, the 3 base items, the lambda item if lambda fired;
\* best_practices is the first 5 of the 3 base items followed by the
\* bedrock, lambda, s3 and dynamodb items that fired, in that order; s3 and
\* dynamodb leave immediate alone.
C13_AugmentationRules ==
  rpc = "done" =>
    /\ recommendations.immediate
         = If(Fired("bedrock"), BedrockImmediate) \o BaseImmediate
             \o If(Fired("lambda"), LambdaImmediate)
    /\ recommendations.best_practices
         = Prefix(BaseBestPractices
                    \o If(Fired("bedrock"), BedrockPractice)
                    \o If(Fired("lambda"), LambdaPractice)
                    \o If(Fired("s3"), S3Practice)
                    \o If(Fired("dynamodb"), DynamoDBPractice), 5)
    /\ Fired("bedrock") => recommendations.immediate[1] = BedrockImmediate

\* C13 witness: one name fired bedrock and lambda, another only s3: the
\* bedrock item leads immediate and the s3 item is the sixth best practice,
\* cut by the truncation
C13_Witness ==
  /\ rpc = "done"
  /\ service_names = <<N_LambdaBedrock, N_s3>>
  /\ recommendations.immediate[1] = BedrockImmediate
  /\ recommendations.immediate[5] = LambdaImmediate
  /\ augmented.best_practices[6] = S3Practice
  /\ recommendations.best_practices[5] = LambdaPractice

\* the records among the first 5 whose product.attributes has both
\* productFamily and description
Describing(list) ==
  {i \in 1..Len(Prefix(list, 5)) :
     /\ list[i].kind = "object"
     /\ list[i].product.hasAttributes
     /\ list[i].product.hasProductFamily
     /\ list[i].product.hasDescription}

FamilyThatDescription(product) ==
  product.productFamily \o <<" ", "t", "h", "a", "t", " ">> \o product.description

\* the loop over the records has run: to its end, or to a record that
\* made it raise
LoopHasRun ==
  \/ Returned
  \/ pc = "raised" /\ exception = "'list' object has no attribute 'get'"

\* C14: with a list payload the description of a returned structure is
\* '<productFamily> that <description>' of the first record, among the first
\* 5, that has both attributes; and from that record on, after each further
\* record the loop gets to, whatever it holds, the description is still
\* that one.
C14_FirstDescriptionKept ==
  (ListPayload /\ LoopHasRun) =>
    LET list == Prefix(event.pricing_data.data.list, 5)
        st0 == [ps |-> NewPricingStructure(event.service_name.value),
                raised |-> FALSE, error |-> ""]
    IN  Describing(list) # {} =>
          LET i == Min(Describing(list))
          IN  /\ Returned =>
                   pricing_structure.service_description
                     = FamilyThatDescription(list[i].product)
              /\ \A k \in i..Len(list) :
                   LET st == ProcessItems(SubSeq(list, 1, k), st0)
                   IN  \/ \E j \in 1..(i - 1) : list[j].kind = "array"
                       \/ st.ps.service_description
                            = FamilyThatDescription(list[i].product)

\* C14 witness: the description set by the first record is kept over an
\* element that is no JSON and a record with other attributes
C14_Witness ==
  /\ Returned
  /\ ListPayload
  /\ event.pricing_data.data.list = <<SecondRecord, BadJson, PlainRecord>>
  /\ pricing_structure.service_description
       = A_Compute \o <<" ", "t", "h", "a", "t", " ">> \o A_Scales

S_Dollar020Cost == <<"$", "0", ".", "2", "0">>

\* C15: in every returned structure the three usage-level mappings have the
\* same keys, the distinct units of unit_pricing; unit_pricing keeps every
\* extracted entry, duplicates of a unit included; for a unit with several
\* entries the last entry's price alone gives the unit's low, medium and
\* high cost, and the baseline adds one medium cost per unit, not one per
\* entry.
C15_LastEntryDecides ==
  Returned =>
    LET up == pricing_structure.unit_pricing
        ul == pricing_structure.usage_levels
        total == SumShownCents(ul["medium"], UnitsOf(up))
    IN  /\ \A l \in {"low", "medium", "high"} : DOMAIN ul[l] = UnitsOf(up)
        /\ ListPayload => up = WellFormedEntries(event.pricing_data.data.list)
        /\ \A u \in UnitsOf(up) :
             LET p == ParseFloat(StripPrice(LastEntry(up, u).price))
             IN  IF p.ok
                 THEN /\ NearestCent(ul["low"][u], p, 5)
                      /\ NearestCent(ul["medium"][u], p, 10)
                      /\ NearestCent(ul["high"][u], p, 20)
                 ELSE \A l \in {"low", "medium", "high"} : ~IsDollarString(ul[l][u])
        /\ Cents(baseline) = IF total = 0 THEN 10000 ELSE total

\* C15 witness: unit 'Requests' occurs three times, priced $0.20, without a
\* price and $0.20 again: five entries are kept, three units have a cost,
\* 'Requests' costs $0.20 and the baseline is 0.20 + 0.12 + 1000.50, not the
\* sum over the entries
C15_Witness ==
  /\ Returned
  /\ ListPayload
  /\ event.pricing_data.data.list = <<PlainRecord, SecondRecord, PlainRecord>>
  /\ Len(pricing_structure.unit_pricing) = 5
  /\ Cardinality(DOMAIN pricing_structure.usage_levels["medium"]) = 3
  /\ pricing_structure.usage_levels["medium"][U_Requests] = S_Dollar020Cost
  /\ pc = "render" /\ Cents(baseline) = 100082

=============================================================================
